---------------------------- MODULE Spec2Model ----------------------------
(***************************************************************************)
(* A model of src/usr/src/app/src/main.js: the ESG/sustainability report   *)
(* crawler.  The request handler (lines 23-157) is modelled step by step   *)
(* between its await points; the crawler that runs it (CheerioCrawler,     *)
(* lines 19-22 and 160) is modelled at its interface: a request queue      *)
(* keyed by URL, a bounded pool of concurrent handlers and the             *)
(* maxRequestsPerCrawl limit.                                              *)
(*                                                                         *)
(* Strings are modelled by what the code does with them:                   *)
(*   - a URL-like string is a record: [t |-> "url", host, path] parses     *)
(*     with new URL(s); [t |-> "host", host] (a bare host name such as     *)
(*     "a.com") and [t |-> "bad"] do not; [t |-> "empty"] is ''.          *)
(*   - a text is a sequence of pieces [src, off, len]: len characters of   *)
(*     the literal src starting at offset off, so that slice, trim, join   *)
(*     and the regular-expression tests are computed on lengths and        *)
(*     offsets.                                                            *)
(***************************************************************************)
EXTENDS Integers, Sequences, FiniteSets, TLC

\* ------------------------------------------------------------------ bounds
\* Most anchors on a generated page (pages of pairwise distinct hrefs).
MaxAnchors == 6
\* Most anchors on a generated page whose hrefs may repeat.
MaxRepeatAnchors == 2
\* Most elements in the body of a generated document.
MaxElems == 3
\* Largest maxRequestsPerCrawl the inputs give.
MaxCap == 2
\* Handlers the crawler runs concurrently.
MaxConcurrency == 2

\* ------------------------------------------------------- program constants
ExecSummaryMax == 4000
SiblingTries == 6
PdfCap == 5
ReportScan == 2000
DateScan == 1200

\* ---------------------------------------------------------------- helpers
Min(S) == CHOOSE x \in S : \A y \in S : x <= y

SeqSet(s) == {s[i] : i \in DOMAIN s}

\* Array.from(new Set(xs)): the first occurrence of each element, in order.
RECURSIVE Dedup(_)
Dedup(xs) ==
  IF xs = <<>> THEN <<>>
  ELSE LET init == Dedup(SubSeq(xs, 1, Len(xs) - 1))
           last == xs[Len(xs)]
       IN IF last \in SeqSet(init) THEN init ELSE Append(init, last)

\* xs.slice(0, n) of an array.
Take(xs, n) == SubSeq(xs, 1, IF Len(xs) < n THEN Len(xs) ELSE n)

\* Sequences over S of length at most n; those without a repeated element.
SeqsUpTo(S, n) == UNION {[1..k -> S] : k \in 0..n}
Injective(s) == \A i, j \in DOMAIN s : s[i] = s[j] => i = j

\* ------------------------------------------------------------------- texts
\* The literals page texts are made of, with their lengths.  "P1".."P7" and
\* "Long" are opaque runs of ordinary prose; " " is white space.
WordLen ==
  [w \in {"Executive Summary", "EXECUTIVE SUMMARY", "executive summary",
          "Summary", "ESG", "sustainability", "Governance", "2023",
          "P1", "P2", "P3", "P4", "P5", "P6", "P7", "Long", "Home", "Pad197",
          "Pad198", "Acme", "OG Title", "H1 Title", "Doc Title", "2024-01-01",
          "Esg", "esg", ",", " ", "\n\n"}
   |-> CASE w = "Executive Summary" -> 17
         [] w = "EXECUTIVE SUMMARY" -> 17
         [] w = "executive summary" -> 17
         [] w = "Summary" -> 7
         [] w = "ESG" -> 3
         [] w = "sustainability" -> 14
         [] w = "Governance" -> 10
         [] w = "2023" -> 4
         [] w = "Long" -> 4500
         [] w = "Home" -> 4
         [] w = "Pad197" -> 197
         [] w = "Pad198" -> 198
         [] w = "Acme" -> 4
         [] w = "OG Title" -> 8
         [] w = "H1 Title" -> 8
         [] w = "Doc Title" -> 9
         [] w = "2024-01-01" -> 10
         [] w = "Esg" -> 3
         [] w = "esg" -> 3
         [] w = "," -> 1
         [] w = " " -> 3
         [] w = "\n\n" -> 2
         [] OTHER -> 900]

\* Occurrences inside a literal: the exact substring s, its lower-case form
\* lc, its offset at and its length n.
Occ(w) ==
  CASE w = "Executive Summary" ->
         {[s |-> "Executive Summary", lc |-> "executive summary", at |-> 0, n |-> 17],
          [s |-> "Summary", lc |-> "summary", at |-> 10, n |-> 7]}
    [] w = "EXECUTIVE SUMMARY" ->
         {[s |-> "EXECUTIVE SUMMARY", lc |-> "executive summary", at |-> 0, n |-> 17],
          [s |-> "SUMMARY", lc |-> "summary", at |-> 10, n |-> 7]}
    [] w = "executive summary" ->
         {[s |-> "executive summary", lc |-> "executive summary", at |-> 0, n |-> 17],
          [s |-> "summary", lc |-> "summary", at |-> 10, n |-> 7]}
    [] w = "Summary" -> {[s |-> "Summary", lc |-> "summary", at |-> 0, n |-> 7]}
    [] w = "ESG" -> {[s |-> "ESG", lc |-> "esg", at |-> 0, n |-> 3]}
    [] w = "Esg" -> {[s |-> "Esg", lc |-> "esg", at |-> 0, n |-> 3]}
    [] w = "esg" -> {[s |-> "esg", lc |-> "esg", at |-> 0, n |-> 3]}
    [] w = "sustainability" ->
         {[s |-> "sustainability", lc |-> "sustainability", at |-> 0, n |-> 14]}
    [] w = "Governance" -> {[s |-> "Governance", lc |-> "governance", at |-> 0, n |-> 10]}
    [] w = "2023" -> {[s |-> "2023", lc |-> "2023", at |-> 0, n |-> 4]}
    [] OTHER -> {}

\* The whole literal w as a text.
Lit(w) == <<[src |-> w, off |-> 0, len |-> WordLen[w]]>>

RECURSIVE TextLen(_)
TextLen(s) == IF s = <<>> THEN 0 ELSE Head(s).len + TextLen(Tail(s))

\* s.slice(0, n) of a string.
RECURSIVE Slice(_, _)
Slice(s, n) ==
  IF s = <<>> \/ n <= 0 THEN <<>>
  ELSE IF Head(s).len <= n THEN <<Head(s)>> \o Slice(Tail(s), n - Head(s).len)
  ELSE <<[Head(s) EXCEPT !.len = n]>>

IsSpace(p) == p.src = " "

\* s.trim().
RECURSIVE TrimLeft(_)
TrimLeft(s) == IF s # <<>> /\ IsSpace(Head(s)) THEN TrimLeft(Tail(s)) ELSE s
RECURSIVE TrimRight(_)
TrimRight(s) ==
  IF s # <<>> /\ IsSpace(s[Len(s)]) THEN TrimRight(SubSeq(s, 1, Len(s) - 1)) ELSE s
Trim(s) == TrimRight(TrimLeft(s))

\* parts.join(sep).
RECURSIVE Join(_, _)
Join(parts, sep) ==
  IF parts = <<>> THEN <<>>
  ELSE IF Len(parts) = 1 THEN parts[1]
  ELSE parts[1] \o sep \o Join(Tail(parts), sep)

\* An occurrence of the literal hit lies inside the piece p.
Inside(o, p) == p.off <= o.at /\ o.at + o.n <= p.off + p.len

\* /k1|k2|.../i.test(s): some piece holds a whole occurrence whose lower
\* case is one of the alternatives.
TestCI(s, alternatives) ==
  \E i \in DOMAIN s : \E o \in Occ(s[i].src) : o.lc \in alternatives /\ Inside(o, s[i])

\* :contains(needle): the text holds needle, case-sensitively.
ContainsCS(s, needle) ==
  \E i \in DOMAIN s : \E o \in Occ(s[i].src) : o.s = needle /\ Inside(o, s[i])

\* s.split(','): the pieces between the "," separators.
RECURSIVE Split(_)
Split(s) ==
  IF \A i \in DOMAIN s : s[i].src # "," THEN <<s>>
  ELSE LET k == Min({i \in DOMAIN s : s[i].src = ","})
       IN <<SubSeq(s, 1, k - 1)>> \o Split(SubSeq(s, k + 1, Len(s)))

\* --------------------------------------------------------------- documents
\* A document is its elements in document order: [tag, parent, own], parent
\* the index of the parent element (0 for the root) and own the element's
\* own text.  Node 1 is <html>.
RECURSIVE IsInside(_, _, _)
IsInside(dom, j, i) ==
  j = i \/ (dom[j].parent # 0 /\ IsInside(dom, dom[j].parent, i))

\* $(el).text(): the text of the element and of its descendants.
RECURSIVE TextFrom(_, _, _)
TextFrom(dom, i, j) ==
  IF j > Len(dom) THEN <<>>
  ELSE (IF IsInside(dom, j, i) THEN dom[j].own ELSE <<>>) \o TextFrom(dom, i, j + 1)
NodeText(dom, i) == IF i = 0 THEN <<>> ELSE TextFrom(dom, i, i)

\* $(sel).first() as an index, 0 for the empty selection.
First(S) == IF S = {} THEN 0 ELSE Min(S)

ByTag(dom, tags) == {i \in DOMAIN dom : dom[i].tag \in tags}
Under(dom, tags, within) ==
  {i \in ByTag(dom, tags) : \E a \in ByTag(dom, within) : a # i /\ IsInside(dom, i, a)}

\* node.next(): the following sibling element, 0 when there is none.
Next_(dom, i) ==
  IF i = 0 THEN 0
  ELSE First({j \in DOMAIN dom : j > i /\ dom[j].parent = dom[i].parent /\ dom[i].parent # 0})

BodyText(dom) == NodeText(dom, First(ByTag(dom, {"body"})))

\* a || b || ... on strings: the first that is not empty.
RECURSIVE Cascade(_)
Cascade(xs) ==
  IF xs = <<>> THEN <<>> ELSE IF Head(xs) # <<>> THEN Head(xs) ELSE Cascade(Tail(xs))

\* lines 48-53
Company(page) ==
  Cascade(<<page.meta["og:site_name"], page.meta["application-name"], page.meta["author"],
            Trim(NodeText(page.dom, First(Under(page.dom, {"h1", "h2"}, {"header"}))))>>)

\* lines 56-61
Title(page) ==
  Cascade(<<page.meta["og:title"], page.meta["twitter:title"],
            Trim(NodeText(page.dom, First(ByTag(page.dom, {"h1"})))),
            Trim(NodeText(page.dom, First(ByTag(page.dom, {"title"}))))>>)

\* lines 64-74: the year pattern matches the literal "2023".
YearIn(s) ==
  IF TestCI(s, {"2023"}) THEN Lit("2023") ELSE <<>>
Date(page) ==
  LET d == Cascade(<<page.meta["article:published_time"], page.meta["time@datetime"],
                     Trim(NodeText(page.dom, First(ByTag(page.dom, {"time"}))))>>)
  IN IF d # <<>> THEN d ELSE YearIn(Slice(BodyText(page.dom), DateScan))

\* lines 78-80: every element whose text contains one of the three needles
\* (the element itself or any descendant holds it), filtered by the regular
\* expression; .first() is the first of them in document order.
SummaryNeedles == {"Executive Summary", "EXECUTIVE SUMMARY", "Summary"}
ExecHeading(dom) ==
  First({i \in DOMAIN dom :
           /\ \E needle \in SummaryNeedles : ContainsCS(NodeText(dom, i), needle)
           /\ TestCI(NodeText(dom, i), {"executive summary", "summary"})})

\* lines 84-92: the loop over the following siblings.
RECURSIVE SiblingParts(_, _, _)
SiblingParts(dom, node, tries) ==
  IF tries >= SiblingTries THEN <<>>
  ELSE LET txt == Trim(NodeText(dom, node))
       IN (IF txt # <<>> THEN <<txt>> ELSE <<>>)
            \o SiblingParts(dom, Next_(dom, node), tries + 1)

\* lines 77-98
ExecSummary(page) ==
  LET execHeading == ExecHeading(page.dom)
  IN IF execHeading # 0
     THEN Slice(Join(SiblingParts(page.dom, Next_(page.dom, execHeading), 0), Lit("\n\n")),
                ExecSummaryMax)
     ELSE Slice(Trim(NodeText(page.dom,
                  First(Under(page.dom, {"p"}, {"article", "div.content", "div.report"})))),
                ExecSummaryMax)

\* lines 114-118 and 129: the tags, deduplicated.
RECURSIVE TrimAll(_)
TrimAll(xs) == IF xs = <<>> THEN <<>> ELSE <<Trim(Head(xs))>> \o TrimAll(Tail(xs))
Tags(page) ==
  LET metaKeywords == page.meta["keywords"]
      fromMeta == IF metaKeywords # <<>> THEN TrimAll(Split(metaKeywords)) ELSE <<>>
      esg == IF TestCI(BodyText(page.dom), {"esg"}) THEN <<Lit("esg")>> ELSE <<>>
      sus == IF TestCI(BodyText(page.dom), {"sustainability"})
             THEN <<Lit("sustainability")>> ELSE <<>>
  IN Dedup(fromMeta \o esg \o sus)

\* lines 136-138
ReportKeywords ==
  {"sustainability", "esg", "csr", "environmental", "social", "governance",
   "sustainability report", "esg report"}
IsLikelyReportKeywordsOnly(page, exec_summary) ==
  TestCI(Slice(BodyText(page.dom), ReportScan), ReportKeywords)
IsLikelyReport(page, exec_summary) ==
  exec_summary # <<>> \/ TestCI(Slice(BodyText(page.dom), ReportScan), ReportKeywords)

\* -------------------------------------------------------------------- URLs
Url(h, p) == [t |-> "url", host |-> h, path |-> p]
HostName(h) == [t |-> "host", host |-> h]
BadUrl == [t |-> "bad"]
EmptyStr == [t |-> "empty"]
\* request.userData.startHost when the request carries none.
NoTag == [t |-> "none"]

\* new URL(s) succeeds; .host of the result.
Parses(s) == s.t = "url"
HostOf(s) == s.host

\* The href attributes of the anchors: relative ones resolve against the
\* page's URL, "https://b.com/csr" is absolute, "http://" cannot be resolved,
\* "" is an empty attribute.
RelPath ==
  [h \in {"/a.pdf", "a.pdf", "/B.PDF", "/c.pdf", "/d.pdf", "/e.pdf", "/f.pdf", "/g.pdf",
          "/esg-report", "/about"}
   |-> IF h = "a.pdf" THEN "/a.pdf" ELSE h]
AllHrefs == DOMAIN RelPath \cup {"https://b.com/csr", "http://", ""}

\* new URL(href, loadedUrl): [ok, url]; ok is FALSE when it throws.
Resolve(href, base) ==
  IF href \in DOMAIN RelPath THEN [ok |-> TRUE, url |-> Url(base.host, RelPath[href])]
  ELSE IF href = "https://b.com/csr" THEN [ok |-> TRUE, url |-> Url("b.com", "/csr")]
  ELSE [ok |-> FALSE, url |-> BadUrl]

\* abs.toLowerCase().endsWith('.pdf')
LowerCase(p) == IF p = "/B.PDF" THEN "/b.pdf" ELSE p
EndsWithPdf(url) ==
  LowerCase(url.path) \in {"/a.pdf", "/b.pdf", "/c.pdf", "/d.pdf", "/e.pdf", "/f.pdf", "/g.pdf"}

\* /esg|sustainability|sustainability-report|annual-report|csr/i.test(href)
HrefKeyword(href) == href \in {"/esg-report", "https://b.com/csr"}

\* lines 101-111: the loop over $('a[href]'); err when new URL threw, which
\* leaves the loop and the try block at once.
RECURSIVE PdfScan(_, _, _)
RECURSIVE PdfScanSkipsUnresolvable(_, _, _)
PdfScanSkipsUnresolvable(anchors, loadedUrl, pdfs) ==
  IF anchors = <<>> THEN [err |-> FALSE, pdfs |-> pdfs]
  ELSE LET href == Head(anchors)
           abs == Resolve(href, loadedUrl)
       IN IF href = "" \/ ~abs.ok THEN PdfScanSkipsUnresolvable(Tail(anchors), loadedUrl, pdfs)
          ELSE IF EndsWithPdf(abs.url) \/ HrefKeyword(href)
          THEN PdfScanSkipsUnresolvable(Tail(anchors), loadedUrl, Append(pdfs, abs.url))
          ELSE PdfScanSkipsUnresolvable(Tail(anchors), loadedUrl, pdfs)
PdfScan(anchors, loadedUrl, pdfs) ==
  IF anchors = <<>> THEN [err |-> FALSE, pdfs |-> pdfs]
  ELSE LET href == Head(anchors)
           abs == Resolve(href, loadedUrl)
       IN IF href = "" THEN PdfScan(Tail(anchors), loadedUrl, pdfs)
          ELSE IF ~abs.ok THEN [err |-> TRUE, pdfs |-> pdfs]
          ELSE IF EndsWithPdf(abs.url) \/ HrefKeyword(href)
          THEN PdfScan(Tail(anchors), loadedUrl, Append(pdfs, abs.url))
          ELSE PdfScan(Tail(anchors), loadedUrl, pdfs)

Record(page, loadedUrl, exec_summary, pdf_url) ==
  [company |-> Company(page), title |-> Title(page), date |-> Date(page),
   pdf_url |-> pdf_url, exec_summary |-> exec_summary, tags |-> Tags(page),
   url |-> loadedUrl]

\* line 122: Array.from(new Set(pdfs)).slice(0, 5)
PdfsToSaveSliceFirst(pdfs) == Dedup(Take(pdfs, PdfCap))
PdfsToSave(pdfs) == Take(Dedup(pdfs), PdfCap)

\* lines 121-153: the records the handler goes on to push, in order.
ToSave(page, loadedUrl, exec_summary, pdfs) ==
  IF pdfs # <<>>
  THEN [i \in DOMAIN PdfsToSave(pdfs) |->
          Record(page, loadedUrl, exec_summary, PdfsToSave(pdfs)[i])]
  ELSE IF IsLikelyReport(page, exec_summary)
  THEN <<Record(page, loadedUrl, exec_summary, EmptyStr)>>
  ELSE <<>>

\* lines 46-156 up to the first pushData: err when the try block was left
\* by an exception, else the records to push.
ExtractionSavesOnError(page, loadedUrl, detect) ==
  LET exec_summary == ExecSummary(page)
      scan == IF detect THEN PdfScan(page.anchors, loadedUrl, <<>>)
              ELSE [err |-> FALSE, pdfs |-> <<>>]
  IN [err |-> scan.err, exec_summary |-> exec_summary, pdfs |-> scan.pdfs,
      out |-> ToSave(page, loadedUrl, exec_summary, scan.pdfs)]
Extraction(page, loadedUrl, detect) ==
  LET exec_summary == ExecSummary(page)
      scan == IF detect THEN PdfScan(page.anchors, loadedUrl, <<>>)
              ELSE [err |-> FALSE, pdfs |-> <<>>]
  IN [err |-> scan.err,
      exec_summary |-> exec_summary,
      pdfs |-> scan.pdfs,
      out |-> IF scan.err THEN <<>> ELSE ToSave(page, loadedUrl, exec_summary, scan.pdfs)]

\* ------------------------------------------------------------------- pages
\* A fetched page: its <meta> contents and first <time datetime> (the empty
\* text when absent), its elements, the href attributes of its a[href]
\* anchors in document order, and the URLs enqueueLinks finds on it.
MetaKeys ==
  {"og:site_name", "application-name", "author", "og:title", "twitter:title",
   "article:published_time", "time@datetime", "keywords"}
NoMeta == [k \in MetaKeys |-> <<>>]

El(tag, parent, own) == [tag |-> tag, parent |-> parent, own |-> own]
DocHead == <<El("html", 0, <<>>), El("head", 1, <<>>), El("title", 2, Lit("Doc Title")),
             El("body", 1, <<>>)>>
\* <html><head><title/></head><body> kids </body></html>
Doc(kids) == DocHead \o [i \in DOMAIN kids |-> El(kids[i].tag, 4, kids[i].own)]
\* ... <body><wrap> kids </wrap></body>
DocIn(wrap, kids) ==
  DocHead \o <<El(wrap, 4, <<>>)>> \o [i \in DOMAIN kids |-> El(kids[i].tag, 5, kids[i].own)]

K(tag, w) == [tag |-> tag, own |-> Lit(w)]
ElemKinds ==
  {K("h2", "Executive Summary"), K("h2", "executive summary"), K("p", "P1"), K("p", " "),
   K("p", "ESG")}

Page(dom, anchors, links) ==
  [meta |-> NoMeta, dom |-> dom, anchors |-> anchors, links |-> links]

A0 == Url("a.com", "/")
A1 == Url("a.com", "/p1")
A2 == Url("a.com", "/p2")
B0 == Url("b.com", "/")
B1 == Url("b.com", "/p1")

PlainDom == Doc(<<K("p", "Home")>>)
ReportDom == Doc(<<K("p", "ESG")>>)
SixParagraphs == <<K("p", "P1"), K("p", "P2"), K("p", "P3"), K("p", "P4"), K("p", "P5"),
                   K("p", "P6"), K("p", "P7")>>
\* A heading followed by seven paragraphs of 900 characters.
SummaryDom == Doc(<<K("h2", "Executive Summary")>> \o SixParagraphs)
UpperSummaryDom == DocIn("div", <<K("h2", "EXECUTIVE SUMMARY")>> \o SixParagraphs)
LowerSummaryDom == Doc(<<K("h2", "executive summary")>> \o SixParagraphs)
ArticleDom == DocIn("article", <<K("p", "Long"), K("p", "P1")>>)
ContentDom == DocIn("div.content", <<K("p", " "), K("p", "P1")>>)
\* "ESG" at offsets 1997..1999 and at 1998..2000 of the body text.
EdgeInDom == Doc(<<K("p", "P1"), K("p", "P2"), K("p", "Pad197"), K("p", "ESG")>>)
EdgeOutDom == Doc(<<K("p", "P1"), K("p", "P2"), K("p", "Pad198"), K("p", "ESG")>>)
MetaPage ==
  [meta |-> [NoMeta EXCEPT !["og:site_name"] = Lit("Acme"), !["og:title"] = Lit("OG Title"),
                           !["time@datetime"] = Lit("2024-01-01"),
                           !["keywords"] = Lit("ESG") \o Lit(",") \o Lit(" ") \o Lit("Esg")
                                             \o Lit(",") \o Lit("ESG")],
   dom |-> Doc(<<K("h1", "H1 Title"), K("p", "2023"), K("p", "sustainability")>>),
   anchors |-> <<"/about">>, links |-> {A1}]

HandDoms ==
  {PlainDom, ReportDom, SummaryDom, UpperSummaryDom, LowerSummaryDom, ArticleDom,
   ContentDom, EdgeInDom, EdgeOutDom}

\* Hrefs that resolve to pairwise distinct URLs, all PDF or report candidates.
DistinctHrefs == {"/a.pdf", "/B.PDF", "/c.pdf", "/d.pdf", "/esg-report",
                  "https://b.com/csr"}
\* Hrefs of every kind, for the pages whose anchors may repeat.
RepeatHrefs == {"/a.pdf", "a.pdf", "/about", "http://", ""}
EightPdfs == <<"/a.pdf", "/B.PDF", "a.pdf", "/c.pdf", "/about", "/d.pdf", "/e.pdf",
               "/f.pdf", "/esg-report", "/g.pdf">>

\* The pages the handler is run on, one at a time.
Pages ==
  {Page(ReportDom, a, {}) : a \in {x \in SeqsUpTo(DistinctHrefs, MaxAnchors) : Injective(x)}}
  \cup {Page(d, a, {A1}) : d \in {PlainDom, ReportDom}, a \in SeqsUpTo(RepeatHrefs, MaxRepeatAnchors)}
  \cup {Page(Doc(k), <<>>, {A1, B0}) : k \in SeqsUpTo(ElemKinds, MaxElems)}
  \cup {Page(d, a, {A1, BadUrl}) : d \in HandDoms, a \in {<<>>, <<"/a.pdf", "http://">>}}
  \cup {Page(PlainDom, EightPdfs, {A1}), MetaPage}

\* The site of the crawl: what each URL serves, and the redirect of B0.
SitePage(u) ==
  CASE u = A0 -> Page(PlainDom, <<"/a.pdf", "a.pdf", "/esg-report">>, {A0, A1, B0, BadUrl})
    [] u = A1 -> Page(ReportDom, <<"/c.pdf", "http://">>, {A2, B0})
    [] u = A2 -> Page(ArticleDom, <<"/about">>, {A0})
    [] u = B1 -> Page(ReportDom, <<>>, {A1})
    [] OTHER -> Page(PlainDom, <<>>, {})
LoadedUrl(u) == IF u = B0 THEN B1 ELSE u

\* ------------------------------------------------------------------- state
VARIABLES
  input,                 \* Actor.getInput() with its defaults (lines 8-14)
  served,                \* the site crawled, or the one page served at every URL
  queue,                 \* the crawler's request queue, keyed by URL
  tasks,                 \* the requestHandler calls, by request URL
  handledRequestsCount,  \* requests the crawler has finished with
  dataset,               \* Dataset: the pushed records, in order
  warnings,              \* log.warning('Extraction error', ...) calls
  admitLog,              \* the calls of transformRequestFunction
  finished               \* crawler.run() has resolved, Actor.exit() ran

vars == <<input, served, queue, tasks, handledRequestsCount, dataset, warnings,
          admitLog, finished>>

startUrls == input.startUrls
maxRequestsPerCrawl == input.maxRequestsPerCrawl
detectPdfLinks == input.detectPdfLinks
followInternalOnly == input.followInternalOnly

\* What transformRequestFunction returns to refuse a link.
Null == [t |-> "null"]

Admitted == Cardinality(DOMAIN queue)

\* lines 30-42: r is the request enqueueLinks built for a link, request the
\* one being handled.  An exception of either new URL is swallowed.
TransformRequestRefusesMalformed(r, request, internalOnly) ==
  IF internalOnly
  THEN LET from == IF request.startHost # NoTag THEN request.startHost ELSE request.url
       IN IF ~Parses(from) \/ ~Parses(r.url) THEN Null
          ELSE IF HostOf(r.url) # HostOf(from) THEN Null
          ELSE r
  ELSE r
TransformRequestCapped(r, request, internalOnly) ==
  IF Admitted >= maxRequestsPerCrawl THEN Null
  ELSE IF internalOnly
  THEN LET from == IF request.startHost # NoTag THEN request.startHost ELSE request.url
       IN IF ~Parses(from) \/ ~Parses(r.url) THEN r
          ELSE IF HostOf(r.url) # HostOf(from) THEN Null
          ELSE r
  ELSE r
TransformRequest(r, request, internalOnly) ==
  IF internalOnly
  THEN LET from == IF request.startHost # NoTag THEN request.startHost ELSE request.url
       IN IF ~Parses(from) \/ ~Parses(r.url) THEN r
          ELSE IF HostOf(r.url) # HostOf(from) THEN Null
          ELSE r
  ELSE r

Running == {u \in DOMAIN queue : queue[u].status = "running"}
Pending == {u \in DOMAIN queue : queue[u].status = "pending"}
RequestOf(u) == [url |-> u, startHost |-> queue[u].startHost]

\* A start URL: a plain string, or a request object with userData.
Source(u, tag) == [url |-> u, startHost |-> tag]

\* line 160: crawler.run(startUrls) puts the start URLs in the queue.
Seeded(sources) ==
  [u \in {sources[i].url : i \in DOMAIN sources} |->
     LET i == Min({j \in DOMAIN sources : sources[j].url = u})
     IN [startHost |-> sources[i].startHost, root |-> u, status |-> "pending"]]

\* The crawl is of the site above, or of a site that serves one page.
WholeSite == [whole |-> TRUE]
Fetched(u) == IF served = WholeSite THEN SitePage(u) ELSE served
\* What the try block of lines 46-156 does with each page of the site.
SiteExtraction ==
  [u \in {A0, A1, A2, B0, B1} |-> [d \in BOOLEAN |-> Extraction(SitePage(u), u, d)]]
Extracts(loadedUrl) ==
  IF served = WholeSite THEN SiteExtraction[loadedUrl][detectPdfLinks]
  ELSE Extraction(served, loadedUrl, detectPdfLinks)
\* The URLs whose fetch can fail: an unreliable server, an unparsable URL.
Unreliable(u) == u = A2 \/ ~Parses(u)

InitWith(in, pages) ==
  /\ input = in
  /\ served = pages
  /\ queue = Seeded(in.startUrls)
  /\ tasks = <<>>
  /\ handledRequestsCount = 0
  /\ dataset = <<>>
  /\ warnings = {}
  /\ admitLog = {}
  /\ finished = FALSE

StartUrlChoices ==
  {<<Source(A0, tag)>> : tag \in {NoTag, HostName("a.com"), A0}}
  \cup {<<Source(A0, NoTag), Source(B0, NoTag)>>, <<Source(B0, HostName("b.com"))>>}

\* The crawl of the site.
Init ==
  \E s \in StartUrlChoices, m \in 1..MaxCap, f \in BOOLEAN :
    \* the start host is read only under followInternalOnly
    /\ f \/ s = <<Source(A0, NoTag)>>
    /\ InitWith([startUrls |-> s, maxRequestsPerCrawl |-> m, detectPdfLinks |-> TRUE,
              followInternalOnly |-> f],
                WholeSite)

\* One page, served at every URL, under a crawl of one request.
InitPage ==
  \E p \in Pages, d \in BOOLEAN :
    /\ d \/ p.anchors \in SeqsUpTo(RepeatHrefs, MaxRepeatAnchors)
    /\ InitWith([startUrls |-> <<Source(A0, NoTag)>>, maxRequestsPerCrawl |-> 1,
                 detectPdfLinks |-> d, followInternalOnly |-> TRUE],
                p)

\* ----------------------------------------------------------------- actions
CanStart(u) ==
  /\ ~finished
  /\ u \in Pending
  /\ Cardinality(Running) < MaxConcurrency
  /\ handledRequestsCount < maxRequestsPerCrawl

\* The crawler takes a pending request, fetches it and calls requestHandler
\* (lines 23-25).
StartRequest(u) ==
  /\ CanStart(u)
  /\ Parses(u)
  /\ queue' = [queue EXCEPT ![u].status = "running"]
  /\ tasks' = [x \in DOMAIN tasks \cup {u} |->
                 IF x = u
                 THEN [pc |-> "enqueueLinks", loadedUrl |-> LoadedUrl(u), err |-> FALSE,
                       exec_summary |-> <<>>, pdfs |-> <<>>, out |-> <<>>, enqueued |-> {}]
                 ELSE tasks[x]]
  /\ UNCHANGED <<input, served, handledRequestsCount, dataset, warnings, admitLog, finished>>

\* The fetch of a pending request fails for good (the fetcher's own retries
\* included): the crawler gives the request up, requestHandler is not called.
FetchFails(u) ==
  /\ CanStart(u)
  /\ Unreliable(u)
  /\ queue' = [queue EXCEPT ![u].status = "failed"]
  /\ handledRequestsCount' = handledRequestsCount + 1
  /\ UNCHANGED <<input, served, tasks, dataset, warnings, admitLog, finished>>

\* What the queue takes of the requests transformRequestFunction returned:
\* those not yet in it; a crawler that counts enqueued requests against
\* maxRequestsPerCrawl takes no more than the limit leaves room for.
Accepted(returned) ==
  LET new == {c \in returned : c \notin DOMAIN queue}
      room == IF maxRequestsPerCrawl > Admitted THEN maxRequestsPerCrawl - Admitted ELSE 0
  IN {new} \cup {S \in SUBSET new : Cardinality(S) = room}

\* lines 28-43: await enqueueLinks({... transformRequestFunction ...}).
EnqueueLinks(u) ==
  /\ u \in DOMAIN tasks
  /\ tasks[u].pc = "enqueueLinks"
  /\ LET request == RequestOf(u)
         links == Fetched(tasks[u].loadedUrl).links
         r(c) == [url |-> c, startHost |-> NoTag]
         returned == {c \in links : TransformRequest(r(c), request, followInternalOnly) # Null}
     IN /\ admitLog' = admitLog \cup
             {[origin |-> request, cand |-> c, result |-> c \in returned,
               atCap |-> Admitted >= maxRequestsPerCrawl] : c \in links}
        /\ \E S \in Accepted(returned) :
             /\ queue' = [x \in DOMAIN queue \cup S |->
                            IF x \in DOMAIN queue THEN queue[x]
                            ELSE [startHost |-> r(x).startHost, root |-> queue[u].root,
                                  status |-> "pending"]]
             /\ tasks' = [tasks EXCEPT ![u].pc = "extract", ![u].enqueued = S]
  /\ UNCHANGED <<input, served, handledRequestsCount, dataset, warnings, finished>>

\* The handler without the catch of lines 154-156: the exception leaves
\* requestHandler and the crawler puts the request back for another try.
ExtractNoCatch(u) ==
  /\ u \in DOMAIN tasks
  /\ tasks[u].pc = "extract"
  /\ LET x == Extracts(tasks[u].loadedUrl)
     IN IF x.err
        THEN /\ tasks' = [tasks EXCEPT ![u].pc = "thrown", ![u].err = TRUE]
             /\ queue' = [queue EXCEPT ![u].status = "pending"]
        ELSE /\ tasks' = [tasks EXCEPT ![u].pc = IF x.out = <<>> THEN "return" ELSE "pushData",
                                       ![u].exec_summary = x.exec_summary,
                                       ![u].pdfs = x.pdfs,
                                       ![u].out = x.out]
             /\ UNCHANGED queue
  /\ UNCHANGED <<input, served, handledRequestsCount, dataset, warnings, admitLog, finished>>

\* lines 46-121 and 134-139, 150-156: the synchronous part of the try block
\* up to the first pushData, or the catch.
Extract(u) ==
  /\ u \in DOMAIN tasks
  /\ tasks[u].pc = "extract"
  /\ LET x == Extracts(tasks[u].loadedUrl)
     IN /\ tasks' = [tasks EXCEPT ![u].pc = IF x.out = <<>> THEN "return" ELSE "pushData",
                                  ![u].err = x.err,
                                  ![u].exec_summary = x.exec_summary,
                                  ![u].pdfs = x.pdfs,
                                  ![u].out = x.out]
        /\ warnings' = IF x.err THEN warnings \cup {[url |-> tasks[u].loadedUrl, by |-> u]}
                       ELSE warnings
  /\ UNCHANGED <<input, served, queue, handledRequestsCount, dataset, admitLog, finished>>

\* lines 123-133 and 140-149: one await Dataset.pushData(...).
PushData(u) ==
  /\ u \in DOMAIN tasks
  /\ tasks[u].pc = "pushData"
  /\ dataset' = Append(dataset, [rec |-> Head(tasks[u].out), by |-> u])
  /\ tasks' = [tasks EXCEPT ![u].out = Tail(@),
                            ![u].pc = IF Tail(tasks[u].out) = <<>> THEN "return" ELSE "pushData"]
  /\ UNCHANGED <<input, served, queue, handledRequestsCount, warnings, admitLog, finished>>

\* line 157: requestHandler returns and the crawler marks the request handled.
Return(u) ==
  /\ u \in DOMAIN tasks
  /\ tasks[u].pc = "return"
  /\ tasks' = [tasks EXCEPT ![u].pc = "done"]
  /\ queue' = [queue EXCEPT ![u].status = "handled"]
  /\ handledRequestsCount' = handledRequestsCount + 1
  /\ UNCHANGED <<input, served, dataset, warnings, admitLog, finished>>

\* lines 160-163: crawler.run resolves once no handler runs and either no
\* request is pending or the limit is reached; Actor.exit().
RunResolves ==
  /\ ~finished
  /\ Running = {}
  /\ Pending = {} \/ handledRequestsCount >= maxRequestsPerCrawl
  /\ finished' = TRUE
  /\ UNCHANGED <<input, served, queue, tasks, handledRequestsCount, dataset, warnings,
                 admitLog>>

Next ==
  \/ \E u \in DOMAIN queue : StartRequest(u)
  \/ \E u \in DOMAIN queue : FetchFails(u)
  \/ \E u \in DOMAIN queue : EnqueueLinks(u)
  \/ \E u \in DOMAIN queue : Extract(u)
  \/ \E u \in DOMAIN queue : PushData(u)
  \/ \E u \in DOMAIN queue : Return(u)
  \/ RunResolves

Spec == Init /\ [][Next]_vars
PageSpec == InitPage /\ [][Next]_vars
\* The event loop runs a step whenever one is possible.
FairSpec == Spec /\ WF_vars(Next)

\* ------------------------------------------------------------------ claims
\* The records the handler of u pushed, in order.
RecordsBy(u) ==
  LET mine == SelectSeq(dataset, LAMBDA e : e.by = u)
  IN [i \in DOMAIN mine |-> mine[i].rec]
\* The handlers that are past the synchronous part of the try block.
Extracted == {u \in DOMAIN tasks : tasks[u].pc \in {"pushData", "return", "done"}}
\* The handlers that have pushed all they had to push.
Emitted == {u \in DOMAIN tasks : tasks[u].pc \in {"return", "done"}}
\* What the start host of a request is meant to be: its tag, else its own host.
StartHostOf(request) ==
  IF request.startHost # NoTag THEN request.startHost.host ELSE request.url.host
\* The scope check as lines 32-39 make it, for a logged call.
ScopeLetsThrough(e) ==
  LET from == IF e.origin.startHost # NoTag THEN e.origin.startHost ELSE e.origin.url
  IN \/ ~followInternalOnly
     \/ ~Parses(from)
     \/ ~Parses(e.cand)
     \/ HostOf(e.cand) = HostOf(from)

C2_AdmitIffHostEqualsStartHost ==
  \A e \in admitLog :
    (followInternalOnly /\ ~e.atCap /\ Parses(e.cand))
      => (e.result <=> HostOf(e.cand) = StartHostOf(e.origin))

\* C3 as stated: every request in the frontier carries a startHost tag equal
\* to the host of the seed it descends from.
C3_StartHostPropagated ==
  \A u \in DOMAIN queue :
    /\ queue[u].startHost # NoTag
    /\ queue[u].startHost.host = HostOf(queue[u].root)

\* The positions of the first occurrences in xs, and the i-th of them.
FirstOccurrences(xs) == {k \in DOMAIN xs : \A j \in 1..(k - 1) : xs[j] # xs[k]}
NthFirst(xs, i) ==
  xs[CHOOSE k \in FirstOccurrences(xs) :
       Cardinality({j \in FirstOccurrences(xs) : j <= k}) = i]

\* C4: a page with d distinct PDF candidates gets exactly min(5, d) records,
\* with pairwise distinct pdf_url values that are the first min(5, d)
\* distinct candidates in discovery order, in that order, all with the same
\* metadata and with url the page's resolved URL.
C4_PdfCapAndOrder ==
  \A u \in Emitted :
    (~tasks[u].err /\ tasks[u].pdfs # <<>>) =>
      LET recs == RecordsBy(u)
          d == Cardinality(SeqSet(tasks[u].pdfs))
          n == IF d < 5 THEN d ELSE 5
      IN /\ Len(recs) = n
         /\ \A i \in 1..n : recs[i].pdf_url = NthFirst(tasks[u].pdfs, i)
         /\ \A i, j \in 1..n : recs[i].pdf_url = recs[j].pdf_url => i = j
         /\ \A i \in 1..n :
              /\ recs[i].url = tasks[u].loadedUrl
              /\ [recs[i] EXCEPT !.pdf_url = EmptyStr] = [recs[1] EXCEPT !.pdf_url = EmptyStr]

\* C4 witness: a page with a repeated candidate and more than five distinct
\* ones has had its five records pushed.
C4_Witness ==
  \E u \in Emitted :
    /\ Len(tasks[u].pdfs) > Cardinality(SeqSet(tasks[u].pdfs))
    /\ Cardinality(SeqSet(tasks[u].pdfs)) > 5
    /\ Len(RecordsBy(u)) = 5

\* A keyword occurrence ends within the first n characters of the text.
RECURSIVE Offset(_, _)
Offset(s, i) == IF i <= 1 THEN 0 ELSE s[i - 1].len + Offset(s, i - 1)
KeywordWithin(s, n, keywords) ==
  \E i \in DOMAIN s : \E o \in Occ(s[i].src) :
    /\ o.lc \in keywords
    /\ Inside(o, s[i])
    /\ Offset(s, i) + (o.at - s[i].off) + o.n <= n

\* C5: a page with PDF candidates gets no record with an empty pdf_url; a
\* page without gets exactly one such record when exec_summary is not empty
\* or a report keyword occurs in the first 2000 characters of its text, and
\* none otherwise; no page gets both kinds of record.
C5_Classification ==
  \A u \in DOMAIN tasks :
    LET recs == RecordsBy(u)
        page == Fetched(tasks[u].loadedUrl)
        likely ==
          \/ tasks[u].exec_summary # <<>>
          \/ KeywordWithin(BodyText(page.dom), 2000,
               {"sustainability", "esg", "csr", "environmental", "social", "governance"})
    IN /\ ~(\E i, j \in DOMAIN recs : recs[i].pdf_url = EmptyStr /\ recs[j].pdf_url # EmptyStr)
       /\ (u \in Emitted /\ ~tasks[u].err /\ tasks[u].pdfs # <<>>)
            => \A i \in DOMAIN recs : recs[i].pdf_url # EmptyStr
       /\ (u \in Emitted /\ ~tasks[u].err /\ tasks[u].pdfs = <<>>)
            => IF likely THEN Len(recs) = 1 /\ recs[1].pdf_url = EmptyStr
               ELSE recs = <<>>

\* C5 witness: a page without candidates and without a keyword, whose
\* exec_summary is not empty, has had its one record pushed.
C5_Witness ==
  \E u \in Emitted :
    /\ tasks[u].pdfs = <<>>
    /\ tasks[u].exec_summary # <<>>
    /\ ~TestCI(BodyText(Fetched(tasks[u].loadedUrl).dom), ReportKeywords)
    /\ Len(RecordsBy(u)) = 1

\* C6: a page whose extraction raised an exception has a warning logged for
\* it and contributes no record; its handler returns as that of a page
\* without output does, the request counts as handled and not as failed, and
\* the crawl has not stopped while a handler runs.
C6_FailureIsolation ==
  /\ \A u \in DOMAIN tasks :
       tasks[u].err =>
         /\ [url |-> tasks[u].loadedUrl, by |-> u] \in warnings
         /\ RecordsBy(u) = <<>>
         /\ tasks[u].out = <<>>
         /\ tasks[u].pc \in {"return", "done"}
         /\ queue[u].status = IF tasks[u].pc = "done" THEN "handled" ELSE "running"
  /\ finished => Running = {}

\* C6 witness: the crawl has ended; a page failed in extraction, and a
\* request that page discovered was processed and has its record.
C6_Witness ==
  \E u, v \in DOMAIN tasks :
    /\ finished
    /\ tasks[u].err
    /\ v \in tasks[u].enqueued
    /\ RecordsBy(v) # <<>>

\* C7: under followInternalOnly a candidate URL that does not parse is let
\* through by the host-scope check, for every origin, and is enqueued unless
\* the crawler's limit is reached.
C7_MalformedAdmitted ==
  \A e \in admitLog :
    (followInternalOnly /\ ~e.atCap /\ ~Parses(e.cand)) =>
      /\ e.result
      /\ e.cand \in DOMAIN queue \/ Admitted >= maxRequestsPerCrawl

\* C7 witness: a malformed candidate was let through below the cap and is in
\* the queue.
C7_Witness ==
  \E e \in admitLog :
    followInternalOnly /\ ~e.atCap /\ ~Parses(e.cand) /\ e.result /\ e.cand \in DOMAIN queue

\* The first element whose own text reads "executive summary" or "summary"
\* in any case: the heading the claim speaks of.
SummaryHeading(dom) ==
  First({i \in DOMAIN dom : TestCI(dom[i].own, {"executive summary", "summary"})})

\* C8 as stated: on a page with such a heading, exec_summary is the join,
\* with a blank line, of the non-empty trimmed texts of up to 6 siblings that
\* follow the heading, cut to 4000 characters.
C8_SummaryFromSiblings ==
  \A u \in Extracted :
    LET dom == Fetched(tasks[u].loadedUrl).dom
        h == SummaryHeading(dom)
    IN h # 0 =>
         tasks[u].exec_summary
           = Slice(Join(SiblingParts(dom, Next_(dom, h), 0), Lit("\n\n")), 4000)

CrawlEnded ==
  /\ Running = {}
  /\ \A u \in DOMAIN tasks : tasks[u].pc = "done" /\ queue[u].status = "handled"
  /\ \A u \in DOMAIN queue :
       \/ queue[u].status \in {"handled", "failed"}
       \/ queue[u].status = "pending" /\ handledRequestsCount >= maxRequestsPerCrawl
  /\ \A i \in DOMAIN dataset : ~tasks[dataset[i].by].err

HasUnresolvable(page, loadedUrl) ==
  \E i \in DOMAIN page.anchors :
    page.anchors[i] # "" /\ ~Resolve(page.anchors[i], loadedUrl).ok

\* C10: with detectPdfLinks, a page with an anchor whose href cannot be
\* resolved gets no record at all, whatever its other anchors and its text;
\* the links its handler had enqueued stay in the queue.
C10_UnresolvableAnchorDiscardsPage ==
  \A u \in Extracted :
    (detectPdfLinks /\ HasUnresolvable(Fetched(tasks[u].loadedUrl), tasks[u].loadedUrl)) =>
      /\ tasks[u].err
      /\ tasks[u].out = <<>>
      /\ RecordsBy(u) = <<>>
      /\ tasks[u].enqueued \subseteq DOMAIN queue

\* C10 witness: a likely-report page with a PDF link before the unresolvable
\* one is done without a record, and a link it enqueued is in the queue.
C10_Witness ==
  \E u \in Emitted :
    LET page == Fetched(tasks[u].loadedUrl)
    IN /\ detectPdfLinks
       /\ HasUnresolvable(page, tasks[u].loadedUrl)
       /\ tasks[u].pdfs # <<>>
       /\ IsLikelyReport(page, tasks[u].exec_summary)
       /\ tasks[u].enqueued # {}
       /\ tasks[u].enqueued \subseteq DOMAIN queue
       /\ RecordsBy(u) = <<>>

=============================================================================
